---- MODULE Spec2Model ----
(***************************************************************************)
(* A model of two parts of the plan layer of go-mysql-server:              *)
(*   - plan.CachedResults and its wrapping iterator cachedResultsIter      *)
(*     (src/unnamed/part_001), under concurrent RowIter / Next / Close /   *)
(*     Dispose / WithChildren / getCachedResults calls;                    *)
(*   - the analyzer rule resolveViews (src/sql/analyzer/resolve_views.go). *)
(***************************************************************************)
EXTENDS Integers, Sequences, FiniteSets, TLC

\* ------------------------------------------------------------- bounds
\* Wrapping iterators (and so caches) that RowIter may allocate.
MaxIters == 2
\* CachedResults nodes: the original and the copies WithChildren makes.
MaxNodes == 2
\* Rows a child produces before io.EOF.
RowsLen == 2
\* Calls of CachedResults.Dispose on one node.
MaxDisposeCalls == 1

\* Go's nil for a cache, a dispose function or a row.
Nil == 0

VARIABLES
    numNodes,     \* CachedResults values that exist: 1..numNodes
    nChild,       \* n.UnaryNode.Child
    nCache,       \* n.cache   (Nil or the id of a cache)
    nDispose,     \* n.dispose (Nil or the id of the cache it releases)
    nNoCache,     \* n.noCache
    mutex,        \* n.mutex: <<"free", 0>> or the call holding it
    numIters,     \* cachedResultsIter values that exist: 1..numIters
    parent,       \* i.parent
    iCache,       \* i.cache
    iDispose,     \* i.dispose
    pos,          \* rows i.iter has produced so far
    pc,           \* where the call running on iterator i stands
    res,          \* (r, err) that i.iter.Next returned to the running Next
    childClosed,  \* calls of i.iter.Close
    cRows,        \* contents of each sql.RowsCache
    cDisposed,    \* invocations of each cache's sql.DisposeFunc
    lastRet,      \* what the call that completed in the last step returned
    clean,        \* history: no child error, failed Add or early Close on i
    eof,          \* history: a Next on iterator i has returned io.EOF
    disposeCalls, \* history: calls of Dispose on node n
    vIn,          \* resolveViews: the tree and catalog it is given
    vOut          \* resolveViews: what it returned

nodeVars == <<numNodes, nChild, nCache, nDispose, nNoCache, mutex>>
iterVars == <<numIters, parent, iCache, iDispose, pos, pc, res, childClosed>>
cacheVars == <<cRows, cDisposed>>
viewVars == <<vIn, vOut>>
histVars == <<clean, eof, disposeCalls>>
vars == <<nodeVars, iterVars, cacheVars, lastRet, histVars, viewVars>>

Nodes == 1..MaxNodes
Iters == 1..MaxIters

\* ------------------------------------------------------------ the child
\* The child is deterministic (the precondition NewCachedResults documents):
\* every iterator over child c produces ChildRows(c) and then io.EOF.
ChildRows(c) == [k \in 1..RowsLen |-> 10 * c + k]

Free == <<"free", 0>>
\* A mutex that was copied while it was locked: locked, and no call will
\* ever unlock it.
Copied == <<"copied", 0>>
NoResult == [r |-> Nil, err |-> "none"]
\* lastRet is the return value of the call that completed in the step just
\* taken (NoRet when the step completed no call that returns a value):
\*   op, node, iter  the call, its node and its iterator (or new node);
\*   kind            what was returned;  rows  the rows read with Get;
\*   calledChild     whether the call invoked the child's RowIter;
\*   disposedRead    whether Get read a cache already disposed;
\*   r, err          the pair a Next returned.
NoRet == [op |-> "none", node |-> 0, kind |-> "none", rows |-> <<>>,
          calledChild |-> FALSE, iter |-> 0, disposedRead |-> FALSE,
          r |-> Nil, err |-> "none"]

\* i.iter.Next(ctx): the next row, io.EOF after the last one, or an error
\* (a failing child does not advance).
ChildNext(i) ==
    LET rows == ChildRows(nChild[parent[i]])
    IN  {[r |-> Nil, err |-> "ERR", adv |-> 0]} \cup
        (IF pos[i] < Len(rows)
         THEN {[r |-> rows[pos[i] + 1], err |-> "nil", adv |-> 1]}
         ELSE {[r |-> Nil, err |-> "EOF", adv |-> 0]})

\* --------------------------------------------------------- sql.RowsCache
\* The dispose function NewRowsCache returns: frees the cache's rows.
InvokeDispose(c) ==
    /\ cDisposed' = [cDisposed EXCEPT ![c] = @ + 1]
    /\ cRows' = [cRows EXCEPT ![c] = <<>>]

\* RowsCache.Get
Get(c) == cRows[c]

\* ------------------------------------------------ construction (Init)
\* NewCachedResults(child 1): no cache, no dispose, noCache false, mutex free.
CacheInit ==
    /\ numNodes = 1
    /\ nChild = [n \in Nodes |-> IF n = 1 THEN 1 ELSE 0]
    /\ nCache = [n \in Nodes |-> Nil]
    /\ nDispose = [n \in Nodes |-> Nil]
    /\ nNoCache = [n \in Nodes |-> FALSE]
    /\ mutex = [n \in Nodes |-> Free]
    /\ numIters = 0
    /\ parent = [i \in Iters |-> 0]
    /\ iCache = [i \in Iters |-> Nil]
    /\ iDispose = [i \in Iters |-> Nil]
    /\ pos = [i \in Iters |-> 0]
    /\ pc = [i \in Iters |-> "none"]
    /\ res = [i \in Iters |-> NoResult]
    /\ childClosed = [i \in Iters |-> 0]
    /\ cRows = [c \in Iters |-> <<>>]
    /\ cDisposed = [c \in Iters |-> 0]
    /\ lastRet = NoRet
    /\ clean = [i \in Iters |-> TRUE]
    /\ eof = [i \in Iters |-> FALSE]
    /\ disposeCalls = [n \in Nodes |-> 0]

\* ------------------------------------------------- CachedResults.RowIter
\* n.mutex.Lock() at the head of RowIter.  A call that will allocate a
\* wrapping iterator is only started while the model has one left.
RowIterLock(n) ==
    /\ n \in 1..numNodes
    /\ mutex[n] = Free
    /\ (nCache[n] = Nil /\ ~nNoCache[n]) => numIters < MaxIters
    /\ mutex' = [mutex EXCEPT ![n] = <<"RowIter", 0>>]
    /\ lastRet' = NoRet
    /\ UNCHANGED <<numNodes, nChild, nCache, nDispose, nNoCache, iterVars,
                   cacheVars, histVars, viewVars>>

\* &cachedResultsIter{n, ci, cache, dispose}: iterator i over a fresh child
\* iterator, with the fresh cache i and its dispose function.
NewIter(n, i) ==
    /\ numIters' = i
    /\ parent' = [parent EXCEPT ![i] = n]
    /\ iCache' = [iCache EXCEPT ![i] = i]
    /\ iDispose' = [iDispose EXCEPT ![i] = i]
    /\ pc' = [pc EXCEPT ![i] = "idle"]
    /\ UNCHANGED <<pos, res, childClosed>>

\* The branch of RowIter taken on a node that holds a cache.
RowIterCached(n) ==
    /\ lastRet' = [NoRet EXCEPT !.op = "RowIter", !.node = n, !.kind = "replay",
                                !.rows = Get(nCache[n]),
                                !.disposedRead = (cDisposed[nCache[n]] > 0)]
    /\ UNCHANGED iterVars

\* The branch of RowIter taken on a node with noCache set: the child's own
\* RowIter result, iterator or error, is returned as it is.
RowIterNoCache(n) ==
    /\ \E ok \in BOOLEAN :
          lastRet' = [NoRet EXCEPT !.op = "RowIter", !.node = n,
                                   !.kind = IF ok THEN "direct" ELSE "error",
                                   !.calledChild = TRUE]
    /\ UNCHANGED iterVars

\* The branch of RowIter taken on an empty node.
RowIterEmpty(n) ==
    \/ /\ lastRet' = [NoRet EXCEPT !.op = "RowIter", !.node = n,
                                   !.kind = "error", !.calledChild = TRUE]
       /\ UNCHANGED iterVars
    \/ /\ numIters < MaxIters
       /\ NewIter(n, numIters + 1)
       /\ lastRet' = [NoRet EXCEPT !.op = "RowIter", !.node = n,
                                   !.kind = "wrap", !.calledChild = TRUE,
                                   !.iter = numIters + 1]

\* Which branch RowIter takes: the cache is looked at first, then noCache.
RowIterBranch(n) ==
    IF nCache[n] # Nil THEN RowIterCached(n)
    ELSE IF nNoCache[n] THEN RowIterNoCache(n)
    ELSE RowIterEmpty(n)

\* The body of RowIter and the deferred n.mutex.Unlock().
RowIterBody(n) ==
    /\ n \in 1..numNodes
    /\ mutex[n] = <<"RowIter", 0>>
    /\ RowIterBranch(n)
    /\ mutex' = [mutex EXCEPT ![n] = Free]
    /\ UNCHANGED <<numNodes, nChild, nCache, nDispose, nNoCache,
                   cacheVars, histVars, viewVars>>

\* ---------------------------------------------------- cachedResultsIter
\* A bug cleanUp could have: the cache is disposed but the iterator keeps
\* its references to it.
cleanUpKeep(i) ==
    IF iDispose[i] # Nil
    THEN /\ InvokeDispose(iDispose[i])
         /\ UNCHANGED <<iCache, iDispose>>
    ELSE UNCHANGED <<iCache, iDispose, cRows, cDisposed>>

\* cleanUp: dispose the local cache if the iterator still has one.
cleanUp(i) ==
    IF iDispose[i] # Nil
    THEN /\ InvokeDispose(iDispose[i])
         /\ iCache' = [iCache EXCEPT ![i] = Nil]
         /\ iDispose' = [iDispose EXCEPT ![i] = Nil]
    ELSE UNCHANGED <<iCache, iDispose, cRows, cDisposed>>

\* A bug setCacheInParent could have: the node's cache is not looked at
\* and is overwritten.
setCacheInParentAlways(i) ==
    /\ nCache' = [nCache EXCEPT ![parent[i]] = iCache[i]]
    /\ nDispose' = [nDispose EXCEPT ![parent[i]] = iDispose[i]]
    /\ iCache' = [iCache EXCEPT ![i] = Nil]
    /\ iDispose' = [iDispose EXCEPT ![i] = Nil]
    /\ UNCHANGED <<cRows, cDisposed>>

\* setCacheInParent: hand the local cache to the node, or drop it when the
\* node already has one.
setCacheInParent(i) ==
    IF nCache[parent[i]] = Nil
    THEN /\ nCache' = [nCache EXCEPT ![parent[i]] = iCache[i]]
         /\ nDispose' = [nDispose EXCEPT ![parent[i]] = iDispose[i]]
         /\ iCache' = [iCache EXCEPT ![i] = Nil]
         /\ iDispose' = [iDispose EXCEPT ![i] = Nil]
         /\ UNCHANGED <<cRows, cDisposed>>
    ELSE /\ cleanUp(i)
         /\ UNCHANGED <<nCache, nDispose>>

\* A bug the return could have: after a failed Add the error of the Add is
\* returned in place of the child's nil error.
ReturnSurfacesAddError(i, c) ==
    /\ lastRet' = [NoRet EXCEPT !.op = "Next", !.node = parent[i], !.iter = i,
                                !.kind = "pair", !.r = c.r,
                                !.err = IF pc[i] = "csNoCache" THEN "ErrAdd"
                                        ELSE c.err]
    /\ res' = [res EXCEPT ![i] = NoResult]
    /\ pc' = [pc EXCEPT ![i] = "idle"]
    /\ eof' = [eof EXCEPT ![i] = @ \/ c.err = "EOF"]

\* return r, err: the pair c that i.iter.Next gave goes back to the caller.
Return(i, c) ==
    /\ lastRet' = [NoRet EXCEPT !.op = "Next", !.node = parent[i], !.iter = i,
                                !.kind = "pair", !.r = c.r, !.err = c.err]
    /\ res' = [res EXCEPT ![i] = NoResult]
    /\ pc' = [pc EXCEPT ![i] = "idle"]
    /\ eof' = [eof EXCEPT ![i] = @ \/ c.err = "EOF"]

\* Next has to take the node's mutex before it can return: it waits at `at`.
Wait(i, c, at) ==
    /\ lastRet' = NoRet
    /\ res' = [res EXCEPT ![i] = c]
    /\ pc' = [pc EXCEPT ![i] = at]
    /\ UNCHANGED eof

\* A bug Next could have: the node's mutex is taken at the head of Next
\* and so held across the call of the child.
NextCallLocked(i) ==
    /\ i \in 1..numIters
    /\ pc[i] = "idle"
    /\ mutex[parent[i]] = Free
    /\ mutex' = [mutex EXCEPT ![parent[i]] = <<"Next", i>>]
    /\ pc' = [pc EXCEPT ![i] = "inChild"]
    /\ lastRet' = NoRet
    /\ UNCHANGED <<numNodes, nChild, nCache, nDispose, nNoCache, numIters,
                   parent, iCache, iDispose, pos, res, childClosed, cacheVars,
                   histVars, viewVars>>

\* The caller of iterator i calls Next, which calls i.iter.Next(ctx).
NextCall(i) ==
    /\ i \in 1..numIters
    /\ pc[i] = "idle"
    /\ pc' = [pc EXCEPT ![i] = "inChild"]
    /\ lastRet' = NoRet
    /\ UNCHANGED <<nodeVars, numIters, parent, iCache, iDispose, pos, res,
                   childClosed, cacheVars, histVars, viewVars>>

\* A bug AddOk could have: the row is put in front of the cached rows.
AddOkInFront(i, r) ==
    /\ cRows' = [cRows EXCEPT ![iCache[i]] = <<r>> \o @]
    /\ UNCHANGED <<cDisposed, iCache, iDispose>>

\* i.cache.Add(r), accepted: the row is appended.
AddOk(i, r) ==
    /\ cRows' = [cRows EXCEPT ![iCache[i]] = Append(@, r)]
    /\ UNCHANGED <<cDisposed, iCache, iDispose>>

\* A bug Next could have: on a child error the local cache is kept, neither
\* disposed nor dropped.
NextLocalKeepsOnError(i, c) ==
    IF iCache[i] = Nil
    THEN /\ Return(i, c)
         /\ UNCHANGED <<iCache, iDispose, cacheVars, clean>>
    ELSE IF c.err = "EOF"
    THEN /\ Wait(i, c, "lockEOF")
         /\ UNCHANGED <<iCache, iDispose, cacheVars, clean>>
    ELSE IF c.err = "ERR"
    THEN /\ Return(i, c)
         /\ clean' = [clean EXCEPT ![i] = FALSE]
         /\ UNCHANGED <<iCache, iDispose, cacheVars>>
    ELSE \/ /\ AddOk(i, c.r)
            /\ Return(i, c)
            /\ UNCHANGED clean
         \/ /\ cleanUp(i)
            /\ Wait(i, c, "lockNoCache")
            /\ clean' = [clean EXCEPT ![i] = FALSE]

\* A bug Next could have: a child error is handled like io.EOF, and the
\* rows cached so far go to the node.
NextLocalPromotesOnError(i, c) ==
    IF iCache[i] = Nil
    THEN /\ Return(i, c)
         /\ UNCHANGED <<iCache, iDispose, cacheVars, clean>>
    ELSE IF c.err = "EOF"
    THEN /\ Wait(i, c, "lockEOF")
         /\ UNCHANGED <<iCache, iDispose, cacheVars, clean>>
    ELSE IF c.err = "ERR"
    THEN /\ Wait(i, c, "lockEOF")
         /\ clean' = [clean EXCEPT ![i] = FALSE]
         /\ UNCHANGED <<iCache, iDispose, cacheVars>>
    ELSE \/ /\ AddOk(i, c.r)
            /\ Return(i, c)
            /\ UNCHANGED clean
         \/ /\ cleanUp(i)
            /\ Wait(i, c, "lockNoCache")
            /\ clean' = [clean EXCEPT ![i] = FALSE]

\* What Next does with the child's answer c before it needs the node's
\* mutex (the iterator's own fields and its own cache only).
NextLocal(i, c) ==
    IF iCache[i] = Nil
    THEN /\ Return(i, c)
         /\ UNCHANGED <<iCache, iDispose, cacheVars, clean>>
    ELSE IF c.err = "EOF"
    THEN /\ Wait(i, c, "lockEOF")
         /\ UNCHANGED <<iCache, iDispose, cacheVars, clean>>
    ELSE IF c.err = "ERR"
    THEN /\ cleanUp(i)
         /\ Return(i, c)
         /\ clean' = [clean EXCEPT ![i] = FALSE]
    ELSE \/ /\ AddOk(i, c.r)
            /\ Return(i, c)
            /\ UNCHANGED clean
         \/ /\ cleanUp(i)
            /\ Wait(i, c, "lockNoCache")
            /\ clean' = [clean EXCEPT ![i] = FALSE]

\* i.iter.Next returns; Next runs up to its return or to its Lock().
ChildReturn(i) ==
    /\ i \in 1..numIters
    /\ pc[i] = "inChild"
    /\ \E c \in ChildNext(i) :
          /\ pos' = [pos EXCEPT ![i] = @ + c.adv]
          /\ NextLocal(i, [r |-> c.r, err |-> c.err])
    /\ UNCHANGED <<nodeVars, numIters, parent, childClosed, disposeCalls,
                   viewVars>>

\* i.parent.mutex.Lock() in Next, on io.EOF or after a failed Add.
NextLock(i) ==
    /\ i \in 1..numIters
    /\ pc[i] \in {"lockEOF", "lockNoCache"}
    /\ mutex[parent[i]] = Free
    /\ mutex' = [mutex EXCEPT ![parent[i]] = <<"Next", i>>]
    /\ pc' = [pc EXCEPT ![i] = IF pc[i] = "lockEOF" THEN "csEOF" ELSE "csNoCache"]
    /\ lastRet' = NoRet
    /\ UNCHANGED <<numNodes, nChild, nCache, nDispose, nNoCache, numIters,
                   parent, iCache, iDispose, pos, res, childClosed,
                   cacheVars, histVars, viewVars>>

\* Next on io.EOF, mutex held: setCacheInParent, the deferred Unlock, return.
NextPromote(i) ==
    /\ i \in 1..numIters
    /\ pc[i] = "csEOF"
    /\ mutex[parent[i]] = <<"Next", i>>
    /\ setCacheInParent(i)
    /\ mutex' = [mutex EXCEPT ![parent[i]] = Free]
    /\ Return(i, res[i])
    /\ UNCHANGED <<clean, numNodes, nChild, nNoCache, numIters, parent, pos,
                   childClosed, disposeCalls, viewVars>>

\* A bug the write of noCache could have: it is left out.
SetNoCacheForgotten(n) == UNCHANGED nNoCache

\* The write Next makes after a failed Add.
SetNoCache(n) == nNoCache' = [nNoCache EXCEPT ![n] = TRUE]

\* Next after a failed Add, mutex held: noCache = true, Unlock, return.
NextDisable(i) ==
    /\ i \in 1..numIters
    /\ pc[i] = "csNoCache"
    /\ mutex[parent[i]] = <<"Next", i>>
    /\ SetNoCache(parent[i])
    /\ mutex' = [mutex EXCEPT ![parent[i]] = Free]
    /\ Return(i, res[i])
    /\ UNCHANGED <<numNodes, nChild, nCache, nDispose, numIters, parent,
                   iCache, iDispose, pos, childClosed, cacheVars, clean,
                   disposeCalls, viewVars>>

\* Close: cleanUp, then i.iter.Close(ctx).
Close(i) ==
    /\ i \in 1..numIters
    /\ pc[i] = "idle"
    /\ cleanUp(i)
    /\ childClosed' = [childClosed EXCEPT ![i] = @ + 1]
    /\ pc' = [pc EXCEPT ![i] = "closed"]
    /\ lastRet' = NoRet
    /\ clean' = [clean EXCEPT ![i] = @ /\ iCache[i] = Nil]
    /\ UNCHANGED <<nodeVars, numIters, parent, pos, res, eof, disposeCalls,
                   viewVars>>

\* ------------------------------------------------ CachedResults.Dispose
\* Dispose: invoke n.dispose if it is set.  No lock is taken and neither
\* n.dispose nor n.cache is cleared.
Dispose(n) ==
    /\ n \in 1..numNodes
    /\ disposeCalls[n] < MaxDisposeCalls
    /\ disposeCalls' = [disposeCalls EXCEPT ![n] = @ + 1]
    /\ IF nDispose[n] # Nil
       THEN InvokeDispose(nDispose[n])
       ELSE UNCHANGED <<cRows, cDisposed>>
    /\ lastRet' = [NoRet EXCEPT !.op = "Dispose", !.node = n]
    /\ UNCHANGED <<nodeVars, iterVars, clean, eof, viewVars>>

\* ------------------------------------------- CachedResults.WithChildren
\* nn := *n reads every field of n without holding n.mutex.  While a Next
\* holds the mutex and is about to write a field, the unsynchronised read
\* of that field may see the value before or after the write.
SeenCache(n) ==
    {nCache[n]} \cup
    {iCache[i] : i \in {j \in 1..numIters :
        mutex[n] = <<"Next", j>> /\ pc[j] = "csEOF" /\ nCache[n] = Nil}}

SeenDispose(n) ==
    {nDispose[n]} \cup
    {iDispose[i] : i \in {j \in 1..numIters :
        mutex[n] = <<"Next", j>> /\ pc[j] = "csEOF" /\ nCache[n] = Nil}}

SeenNoCache(n) ==
    {nNoCache[n]} \cup
    {TRUE : i \in {j \in 1..numIters :
        mutex[n] = <<"Next", j>> /\ pc[j] = "csNoCache"}}

SeenMutex(n) == {IF mutex[n] = Free THEN Free ELSE Copied, Free}

\* WithChildren with k children: an error unless k = 1, else a copy of the
\* whole struct (cache, dispose, noCache and the mutex's state) with the
\* new child.
WithChildren(n, k) ==
    /\ n \in 1..numNodes
    /\ IF k # 1
       THEN /\ lastRet' = [NoRet EXCEPT !.op = "WithChildren", !.node = n,
                                        !.kind = "error"]
            /\ UNCHANGED nodeVars
       ELSE /\ numNodes < MaxNodes
            /\ numNodes' = numNodes + 1
            /\ nChild' = [nChild EXCEPT ![numNodes + 1] = numNodes + 1]
            /\ \E c \in SeenCache(n), d \in SeenDispose(n),
                  f \in SeenNoCache(n), m \in SeenMutex(n) :
                  /\ nCache' = [nCache EXCEPT ![numNodes + 1] = c]
                  /\ nDispose' = [nDispose EXCEPT ![numNodes + 1] = d]
                  /\ nNoCache' = [nNoCache EXCEPT ![numNodes + 1] = f]
                  /\ mutex' = [mutex EXCEPT ![numNodes + 1] = m]
            /\ lastRet' = [NoRet EXCEPT !.op = "WithChildren", !.node = n,
                                        !.kind = "node", !.iter = numNodes + 1]
    /\ UNCHANGED <<iterVars, cacheVars, histVars, viewVars>>

\* --------------------------------------- CachedResults.getCachedResults
\* n.mutex.Lock() at the head of getCachedResults.
GetCachedLock(n) ==
    /\ n \in 1..numNodes
    /\ mutex[n] = Free
    /\ mutex' = [mutex EXCEPT ![n] = <<"getCachedResults", 0>>]
    /\ lastRet' = NoRet
    /\ UNCHANGED <<numNodes, nChild, nCache, nDispose, nNoCache, iterVars,
                   cacheVars, histVars, viewVars>>

\* nil without a cache, else n.cache.Get(); then the deferred Unlock.
GetCachedBody(n) ==
    /\ n \in 1..numNodes
    /\ mutex[n] = <<"getCachedResults", 0>>
    /\ lastRet' = IF nCache[n] = Nil
                  THEN [NoRet EXCEPT !.op = "getCachedResults", !.node = n,
                                     !.kind = "nil"]
                  ELSE [NoRet EXCEPT !.op = "getCachedResults", !.node = n,
                                     !.kind = "rows", !.rows = Get(nCache[n]),
                                     !.disposedRead = (cDisposed[nCache[n]] > 0)]
    /\ mutex' = [mutex EXCEPT ![n] = Free]
    /\ UNCHANGED <<numNodes, nChild, nCache, nDispose, nNoCache, iterVars,
                   cacheVars, histVars, viewVars>>

\* ============================================================ resolveViews
\* Plan nodes, all of one shape: kind, name, db (UnresolvedTable.Database),
\* asOf (UnresolvedTable.AsOf, "none" for nil) and children.
NilNode == [kind |-> "nil", name |-> "", db |-> "", asOf |-> "none", children |-> <<>>]
UnresolvedTable(name, db, asOf) ==
    [kind |-> "UnresolvedTable", name |-> name, db |-> db, asOf |-> asOf,
     children |-> <<>>]
ResolvedTable(name) ==
    [kind |-> "ResolvedTable", name |-> name, db |-> "", asOf |-> "none",
     children |-> <<>>]
Project(c) ==
    [kind |-> "Project", name |-> "", db |-> "", asOf |-> "none", children |-> <<c>>]
CrossJoin(l, r) ==
    [kind |-> "CrossJoin", name |-> "", db |-> "", asOf |-> "none",
     children |-> <<l, r>>]

\* sql.Node.Resolved: an UnresolvedTable is not resolved; any other node is
\* resolved iff all its children are.
RECURSIVE Resolved(_)
Resolved(n) ==
    /\ n.kind # "UnresolvedTable"
    /\ \A k \in 1..Len(n.children) : Resolved(n.children[k])

\* UnresolvedTable.WithAsOf: the same reference carrying asOf.
WithAsOf(t, asOf) == [t EXCEPT !.asOf = asOf]

\* Node.WithChildren on a plan node, given as many children as it has.
NodeWithChildren(n, cs) == [n EXCEPT !.children = cs]

Ok(n) == [node |-> n, err |-> "nil"]
Fail(e) == [node |-> NilNode, err |-> e]

\* a.Catalog.ViewRegistry.View(db, name) in catalog cat: only the name "v"
\* can be a view; cat.reg[db] says what the registry holds for it in db.
View(cat, db, name) ==
    IF name = "v" /\ db \in DOMAIN cat.reg
    THEN cat.reg[db]
    ELSE [st |-> "ErrNonExistingView", def |-> NilNode]

\* A bug the inner function could have: an unresolved table without an AsOf
\* is returned as it is, the outer AsOf is not put on it.
applyAsOfNotPushed(t, n2) ==
    IF n2.kind # "UnresolvedTable" THEN Ok(n2)
    ELSE IF n2.asOf # "none" THEN Fail("ErrIncompatibleAsOf")
    ELSE Ok(n2)

\* The function resolveViews hands to the inner TransformUp: put t's AsOf
\* on the unresolved table n2, or fail when n2 has an AsOf of its own.
applyAsOf(t, n2) ==
    IF n2.kind # "UnresolvedTable" THEN Ok(n2)
    ELSE IF n2.asOf # "none" THEN Fail("ErrIncompatibleAsOf")
    ELSE Ok(WithAsOf(n2, t.asOf))

\* A bug the choice of database could have: the reference's own database
\* is ignored.
LookupDbCurrent(cat, t) == cat.cur

\* The database a reference is looked up in.
LookupDb(cat, t) == IF t.db = "" THEN cat.cur ELSE t.db

\* A bug the test of the definition's shape could have: any definition
\* with children is taken.
SingleChildOrMore(def) == Len(def.children) >= 1

\* len(children) == 1 for the children of the view's definition.
SingleChild(def) == Len(def.children) = 1

\* A bug the handling of a registry error could have: every error is
\* swallowed and the reference left as it is.
ViewErrorSwallowed(n, err) == Ok(n)

\* What the rule returns for reference n when the registry returned err:
\* ErrNonExistingView leaves n as it is, any other error is returned.
ViewError(n, err) ==
    IF err = "ErrNonExistingView" THEN Ok(n) ELSE Fail(err)

\* A transformation function, as data: the view rule over a catalog, or
\* the AsOf rule for an outer reference t.
ViewRule(cat) == [rule |-> "views", cat |-> cat, t |-> NilNode]
AsOfRule(cat, t) == [rule |-> "asOf", cat |-> cat, t |-> t]

RECURSIVE TransformUp(_, _)

\* The function resolveViews hands to the outer TransformUp.
resolveView(cat, n) ==
    IF Resolved(n) THEN Ok(n)
    ELSE IF n.kind # "UnresolvedTable" THEN Ok(n)
    ELSE LET view == View(cat, LookupDb(cat, n), n.name)
         IN  IF view.st = "view"
             THEN IF n.asOf # "none" /\ SingleChild(view.def)
                  THEN LET child == TransformUp(view.def.children[1], AsOfRule(cat, n))
                       IN  IF child.err # "nil" THEN Fail(child.err)
                           ELSE Ok(NodeWithChildren(view.def, <<child.node>>))
                  ELSE Ok(view.def)
             ELSE ViewError(n, view.st)

\* f(node) for a transformation function given as data.
Apply(f, n) ==
    IF f.rule = "views" THEN resolveView(f.cat, n) ELSE applyAsOf(f.t, n)

\* plan.TransformUp: the children left to right, the first error ending
\* the rewrite; then the node rebuilt with its new children; then f.
TransformUp(n, f) ==
    LET kids == [k \in 1..Len(n.children) |-> TransformUp(n.children[k], f)]
        bad == {k \in 1..Len(n.children) : kids[k].err # "nil"}
    IN  IF bad # {}
        THEN Fail(kids[CHOOSE k \in bad : \A j \in bad : k <= j].err)
        ELSE IF Len(n.children) = 0 THEN Apply(f, n)
        ELSE Apply(f, NodeWithChildren(n, [k \in 1..Len(n.children) |-> kids[k].node]))

\* resolveViews(ctx, a, n)
resolveViews(cat, n) == TransformUp(n, ViewRule(cat))

\* ----------------------------------------------- inputs of resolveViews
Dbs == {"db1", "db2"}
AsOfs == {"none", "q1", "q2"}
Leaves ==
    {UnresolvedTable(nm, db, q) : nm \in {"v", "t"}, db \in Dbs \cup {""}, q \in AsOfs}
        \cup {ResolvedTable("r")}
JoinLeaves ==
    {UnresolvedTable("v", "", q) : q \in {"none", "q1"}}
        \cup {UnresolvedTable("v", "db2", "none"), UnresolvedTable("t", "", "q1"),
              ResolvedTable("r")}
Trees ==
    Leaves \cup {Project(l) : l \in Leaves}
           \cup {CrossJoin(l, r) : l \in JoinLeaves, r \in JoinLeaves}

\* View definitions: without children, with one child (references without
\* and with AsOf, nested, to a view), and with two children.
Definitions ==
    { ResolvedTable("d"),
      Project(UnresolvedTable("t", "", "none")),
      Project(UnresolvedTable("t", "", "q1")),
      Project(CrossJoin(UnresolvedTable("t", "", "none"), UnresolvedTable("v", "db1", "none"))),
      Project(CrossJoin(UnresolvedTable("t", "", "none"), UnresolvedTable("t", "", "q2"))),
      CrossJoin(UnresolvedTable("t", "", "none"), UnresolvedTable("t", "", "q1")) }

\* The errors a registry lookup can return.
RegistryErrors == {"ErrNonExistingView", "ErrOther", "ErrCancelled"}

RegistryAnswers ==
    {[st |-> "view", def |-> d] : d \in Definitions}
        \cup {[st |-> e, def |-> NilNode] : e \in RegistryErrors}

Catalogs == [cur : Dbs, reg : [Dbs -> RegistryAnswers]]

ViewInputs == [tree : Trees, cat : Catalogs]

NoInput ==
    [tree |-> NilNode,
     cat |-> [cur |-> "db1",
              reg |-> [d \in Dbs |-> [st |-> "ErrNonExistingView", def |-> NilNode]]]]
NoOutput == [done |-> FALSE, node |-> NilNode, err |-> "nil"]

\* The analyzer runs the rule on the tree it was given.
ResolveViews ==
    /\ ~vOut.done
    /\ vIn.tree # NilNode
    /\ LET out == resolveViews(vIn.cat, vIn.tree)
       IN  vOut' = [done |-> TRUE, node |-> out.node, err |-> out.err]
    /\ UNCHANGED <<nodeVars, iterVars, cacheVars, lastRet, histVars, vIn>>

\* ------------------------------------------------------ specifications
Init == CacheInit /\ vIn = NoInput /\ vOut = NoOutput

\* Execution of a plan: RowIter calls and the wrapping iterators' calls.
ExecNext ==
    \/ \E n \in Nodes : RowIterLock(n)
    \/ \E n \in Nodes : RowIterBody(n)
    \/ \E i \in Iters : NextCall(i)
    \/ \E i \in Iters : ChildReturn(i)
    \/ \E i \in Iters : NextLock(i)
    \/ \E i \in Iters : NextPromote(i)
    \/ \E i \in Iters : NextDisable(i)
    \/ \E i \in Iters : Close(i)

\* The node's whole life: execution, getCachedResults, WithChildren, Dispose.
Next ==
    \/ ExecNext
    \/ \E n \in Nodes : GetCachedLock(n)
    \/ \E n \in Nodes : GetCachedBody(n)
    \/ \E n \in Nodes : Dispose(n)
    \/ \E n \in Nodes, k \in 0..2 : WithChildren(n, k)

Spec == Init /\ [][Next]_vars

SpecExec == Init /\ [][ExecNext]_vars

\* Execution on the one node, and its disposal.
LifeNext ==
    \/ ExecNext
    \/ \E n \in Nodes : Dispose(n)

SpecLife == Init /\ [][LifeNext]_vars

\* The analyzer's view rule on every input tree and catalog.
InitViews == CacheInit /\ vIn \in ViewInputs /\ vOut = NoOutput

SpecViews == InitViews /\ [][ResolveViews]_vars

\* ================================================================ claims
\* Iterator i has been drained to io.EOF with no child error, no failed
\* Add and no Close on the way.
Drained(i) == i \in 1..numIters /\ eof[i] /\ clean[i]

\* C1 (cache idempotence): once an iterator opened on an empty node has been
\* drained to io.EOF without a child error or a failed Add, the node holds a
\* cache with exactly the child's rows in the child's order, and a RowIter
\* call on that node returns a replay of exactly these rows without calling
\* the child's RowIter (no child iterator exists to call Next on).
C1_CacheIdempotence ==
    \A i \in 1..numIters :
        Drained(i) =>
            /\ nCache[parent[i]] # Nil
            /\ Get(nCache[parent[i]]) = ChildRows(nChild[parent[i]])
            /\ (lastRet.op = "RowIter" /\ lastRet.node = parent[i]) =>
                   /\ lastRet.kind = "replay"
                   /\ lastRet.rows = ChildRows(nChild[parent[i]])
                   /\ ~lastRet.calledChild
                   /\ lastRet.iter = 0

C1_Witness ==
    /\ lastRet.op = "RowIter" /\ lastRet.kind = "replay"
    /\ lastRet.rows = ChildRows(1)
    /\ \E i \in 1..numIters : Drained(i) /\ parent[i] = lastRet.node

\* C2 (concurrent promotion race): when two wrapping iterators of one node
\* have both been drained to io.EOF without error (and no third one has),
\* exactly one of their two caches is the node's cache, with its dispose
\* function, and the other cache has been disposed exactly once; the
\* installed cache is disposed by no iterator (never more often than the
\* node was disposed), and when the node is then disposed for the first
\* time, each of the two caches has been disposed exactly once.
C2_PromotionRace ==
    \A i, j \in 1..numIters :
        (/\ i # j /\ parent[i] = parent[j] /\ Drained(i) /\ Drained(j)
         /\ \A k \in 1..numIters \ {i, j} : parent[k] = parent[i] => ~eof[k]) =>
            LET n == parent[i]
                loser == IF nCache[n] = i THEN j ELSE i
            IN  /\ nCache[n] \in {i, j}
                /\ nDispose[n] = nCache[n]
                /\ iCache[i] = Nil /\ iCache[j] = Nil
                /\ cDisposed[loser] = 1
                /\ cDisposed[nCache[n]] <= disposeCalls[n]
                /\ (lastRet.op = "Dispose" /\ lastRet.node = n /\ disposeCalls[n] = 1) =>
                       cDisposed[i] = 1 /\ cDisposed[j] = 1

C2_Witness ==
    /\ numIters >= 2 /\ parent[1] = parent[2]
    /\ Drained(1) /\ Drained(2)
    /\ pc[1] = "closed" /\ pc[2] = "closed"
    /\ lastRet.op = "Dispose" /\ lastRet.node = parent[1]
    /\ nCache[parent[1]] = 2
    /\ cDisposed[1] = 1 /\ cDisposed[2] = 1

\* C3 (disabled is terminal), as claimed: once noCache is set on a node, no
\* cache is installed on it afterwards, and every RowIter call that then
\* returns delegated to the child and served no rows from a cache.
C3_DisabledIsTerminal ==
    [][\A n \in 1..numNodes :
          nNoCache[n] =>
              /\ nCache[n] = Nil => nCache'[n] = Nil
              /\ (lastRet'.op = "RowIter" /\ lastRet'.node = n) =>
                     /\ lastRet'.kind \in {"direct", "error"}
                     /\ lastRet'.calledChild]_vars

\* C4 (cached is terminal), as claimed: once a node holds a cache, no step
\* of RowIter, Next or Close replaces, clears or changes that cache, and
\* the node does not become disabled.
C4_CachedIsTerminal ==
    [][\A n \in 1..numNodes :
          nCache[n] # Nil =>
              /\ nCache'[n] = nCache[n]
              /\ nDispose'[n] = nDispose[n]
              /\ cRows'[nCache[n]] = cRows[nCache[n]]
              /\ nNoCache'[n] = nNoCache[n]]_vars

\* C5 (graceful degradation on append failure): the step in which Add fails
\* disposes the local cache once and empties the iterator's fields; the Next
\* call then returns the child's row with a nil error and leaves the node
\* with noCache set; a cache once disposed is not disposed again; an
\* iterator without a cache keeps none, and its Next returns exactly what
\* the child returned and touches no cache.
C5_GracefulDegradation ==
    [][\A i \in 1..numIters :
          /\ (pc[i] = "inChild" /\ pc'[i] = "lockNoCache") =>
                 /\ cDisposed[i] = 0 /\ cDisposed'[i] = 1
                 /\ iCache'[i] = Nil /\ iDispose'[i] = Nil
                 /\ res'[i].err = "nil"
                 /\ res'[i].r = ChildRows(nChild[parent[i]])[pos'[i]]
          /\ (pc[i] = "csNoCache" /\ pc'[i] = "idle") =>
                 /\ lastRet'.op = "Next" /\ lastRet'.iter = i
                 /\ lastRet'.err = "nil" /\ lastRet'.r = res[i].r
                 /\ nNoCache'[parent[i]]
                 /\ cDisposed'[i] = 1
          /\ cDisposed[i] >= 1 => cDisposed'[i] = cDisposed[i]
          /\ iCache[i] = Nil => iCache'[i] = Nil /\ iDispose'[i] = Nil
          /\ (iCache[i] = Nil /\ pc[i] = "inChild" /\ pc'[i] # "inChild") =>
                 /\ pc'[i] = "idle"
                 /\ lastRet'.op = "Next" /\ lastRet'.iter = i
                 /\ \E c \in ChildNext(i) : lastRet'.r = c.r /\ lastRet'.err = c.err
                 /\ cRows' = cRows /\ cDisposed' = cDisposed
                 /\ nCache' = nCache /\ nNoCache' = nNoCache]_vars

\* The Next call on iterator 1 whose Add failed has returned the row, and a
\* later Next on it has passed the child's next answer through.
C5_Witness ==
    /\ numIters >= 1 /\ ~clean[1] /\ nNoCache[parent[1]]
    /\ cDisposed[1] = 1 /\ iCache[1] = Nil
    /\ pos[1] = 2
    /\ lastRet.op = "Next" /\ lastRet.iter = 1 /\ lastRet.err = "nil"
    /\ lastRet.r = ChildRows(1)[2]
    /\ cRows[1] = <<>>

\* C6 (disposal on child error): a Next that returns a child error from an
\* iterator that held a local cache disposes that cache exactly once,
\* installs nothing on the node and leaves the node's cache and noCache as
\* they were, and returns the error; a RowIter call on a node that is still
\* empty opens the child again and wraps it with a fresh cache.
C6_DisposalOnChildError ==
    [][/\ \A i \in 1..numIters :
            (iCache[i] # Nil /\ lastRet'.op = "Next" /\ lastRet'.iter = i
                /\ lastRet'.err = "ERR") =>
                /\ cDisposed[i] = 0 /\ cDisposed'[i] = 1
                /\ iCache'[i] = Nil /\ iDispose'[i] = Nil
                /\ nCache' = nCache /\ nDispose' = nDispose
                /\ nNoCache' = nNoCache
                /\ \A n \in 1..numNodes : nCache'[n] # i
       /\ \A n \in 1..numNodes :
            (nCache[n] = Nil /\ ~nNoCache[n] /\ lastRet'.op = "RowIter"
                /\ lastRet'.node = n) =>
                /\ lastRet'.calledChild
                /\ lastRet'.kind \in {"wrap", "error"}
                /\ lastRet'.kind = "wrap" =>
                       /\ iCache'[lastRet'.iter] = lastRet'.iter
                       /\ cRows'[lastRet'.iter] = <<>>
                       /\ pos'[lastRet'.iter] = 0]_vars

\* After a child error on iterator 1 left the node empty, RowIter has
\* returned a second wrapping iterator.
C6_Witness ==
    /\ numIters = 2 /\ ~clean[1] /\ ~eof[1] /\ cDisposed[1] = 1
    /\ pc[1] = "idle" /\ iCache[1] = Nil
    /\ nCache[1] = Nil /\ ~nNoCache[1]
    /\ lastRet.op = "RowIter" /\ lastRet.kind = "wrap" /\ lastRet.iter = 2

\* C7 (single release), as claimed: the dispose function of every cache is
\* invoked at most once.
C7_SingleRelease == \A c \in Iters : cDisposed[c] <= 1

\* C8 (Close releases what the iterator still owns): a closed iterator holds
\* no cache and no dispose function, its child iterator has been closed
\* once, its cache has been disposed exactly once unless it is a node's
\* cache, which no iterator has disposed; an iterator closed before io.EOF
\* has its cache on no node.
C8_CloseReleases ==
    \A i \in 1..numIters :
        pc[i] = "closed" =>
            /\ iCache[i] = Nil /\ iDispose[i] = Nil
            /\ childClosed[i] = 1
            /\ IF \E n \in 1..numNodes : nCache[n] = i
               THEN cDisposed[i] = 0
               ELSE cDisposed[i] = 1
            /\ ~eof[i] => \A n \in 1..numNodes : nCache[n] # i

\* Iterator 1 was closed in mid-stream and iterator 2 after its cache was
\* promoted.
C8_Witness ==
    /\ numIters = 2
    /\ pc[1] = "closed" /\ ~eof[1] /\ pos[1] = 1 /\ cDisposed[1] = 1
    /\ pc[2] = "closed" /\ eof[2] /\ nCache[parent[2]] = 2 /\ cDisposed[2] = 0

\* C9 (lock discipline), as claimed: a step that writes cache, dispose or
\* noCache of a node, or completes a call that read them, is taken by the
\* call that holds the node's mutex.
C9_LockDiscipline ==
    [][\A n \in 1..numNodes :
          /\ (nCache'[n] # nCache[n] \/ nDispose'[n] # nDispose[n]
                \/ nNoCache'[n] # nNoCache[n]) => mutex[n][1] = "Next"
          /\ (lastRet'.op \in {"RowIter", "getCachedResults"} /\ lastRet'.node = n) =>
                 mutex[n][1] = lastRet'.op
          /\ (lastRet'.op = "Dispose" /\ lastRet'.node = n) =>
                 mutex[n][1] = "Dispose"
          /\ (lastRet'.op = "WithChildren" /\ lastRet'.kind = "node"
                /\ lastRet'.node = n) => mutex[n][1] = "WithChildren"]_vars

\* What the registry of catalog cat answers for reference t: looked up in
\* t's own database if it names one, else in the current database.
AnswerFor(cat, t) ==
    IF t.name # "v" THEN [st |-> "ErrNonExistingView", def |-> NilNode]
    ELSE IF t.db # "" THEN cat.reg[t.db] ELSE cat.reg[cat.cur]

\* Every unresolved table reference of tree n either has no AsOf and names
\* a registered view, or names no view.
RECURSIVE PlainOrUnknown(_, _)
PlainOrUnknown(cat, n) ==
    IF n.kind = "UnresolvedTable"
    THEN \/ AnswerFor(cat, n).st = "view" /\ n.asOf = "none"
         \/ AnswerFor(cat, n).st = "ErrNonExistingView"
    ELSE \A k \in 1..Len(n.children) : PlainOrUnknown(cat, n.children[k])

\* Tree n with every reference to a registered view replaced by the view's
\* definition as it is stored, and everything else as it was.
RECURSIVE Substituted(_, _)
Substituted(cat, n) ==
    IF n.kind = "UnresolvedTable"
    THEN IF AnswerFor(cat, n).st = "view" THEN AnswerFor(cat, n).def ELSE n
    ELSE [n EXCEPT !.children =
             [k \in 1..Len(n.children) |-> Substituted(cat, n.children[k])]]

\* C10 (view substitution): on a tree whose unresolved table references
\* either carry no AsOf and name a view registered in their database (the
\* explicit one, else the current one) or name no view, resolveViews returns
\* no error and the tree with each reference of the first kind replaced by
\* the view's definition unchanged and every other node as it was.
C10_ViewSubstitution ==
    (vOut.done /\ PlainOrUnknown(vIn.cat, vIn.tree)) =>
        /\ vOut.err = "nil"
        /\ vOut.node = Substituted(vIn.cat, vIn.tree)

\* A join of a reference, without database, to a view of the current
\* database whose definition holds unresolved references itself, and of a
\* qualified reference that names no view; the other database has no view.
C10_Witness ==
    /\ vOut.done
    /\ vIn.tree = CrossJoin(UnresolvedTable("v", "", "none"),
                            UnresolvedTable("t", "", "q1"))
    /\ vIn.cat.cur = "db2"
    /\ vIn.cat.reg["db1"].st = "ErrNonExistingView"
    /\ vIn.cat.reg["db2"].st = "view"
    /\ vIn.cat.reg["db2"].def = Project(UnresolvedTable("t", "", "q1"))
    /\ vOut.err = "nil"
    /\ vOut.node = CrossJoin(Project(UnresolvedTable("t", "", "q1")),
                             UnresolvedTable("t", "", "q1"))

\* The places of a tree where a reference can stand: the root and the
\* root's children.
Positions(n) == {<<>>} \cup {<<k>> : k \in 1..Len(n.children)}

At(n, p) == IF p = <<>> THEN n ELSE n.children[p[1]]

\* The AsOf values ("none" for a reference without one) of the unresolved
\* table references of tree n.
RECURSIVE InnerAsOfs(_)
InnerAsOfs(n) ==
    IF n.kind = "UnresolvedTable" THEN {n.asOf}
    ELSE UNION {InnerAsOfs(n.children[k]) : k \in 1..Len(n.children)}

\* Tree n with q on every unresolved table reference that had no AsOf.
RECURSIVE PushAsOf(_, _)
PushAsOf(n, q) ==
    IF n.kind = "UnresolvedTable"
    THEN IF n.asOf = "none" THEN [n EXCEPT !.asOf = q] ELSE n
    ELSE [n EXCEPT !.children =
             [k \in 1..Len(n.children) |-> PushAsOf(n.children[k], q)]]

\* t is a reference with an AsOf that names a registered view.
QualifiedView(cat, t) ==
    /\ t.kind = "UnresolvedTable"
    /\ t.asOf # "none"
    /\ AnswerFor(cat, t).st = "view"

\* Every reference of the tree other than the one at p resolves without
\* an error.
OthersPlain(cat, tree, p) ==
    \A p2 \in Positions(tree) \ {p} :
        p2 # <<>> => PlainOrUnknown(cat, At(tree, p2))

\* Every reference of the tree to the left of the one at p resolves
\* without an error.
EarlierPlain(cat, tree, p) ==
    \A p2 \in Positions(tree) :
        (p # <<>> /\ p2 # <<>> /\ p2[1] < p[1]) =>
            PlainOrUnknown(cat, At(tree, p2))

\* The definition def with its only child rewritten to carry q.
Rebuilt(def, q) == [def EXCEPT !.children = <<PushAsOf(def.children[1], q)>>]

\* C11 (qualifier propagation): for a reference t with AsOf q to a view
\* whose definition has exactly one child: if a reference of the child
\* subtree carries an AsOf other than q, resolveViews returns no tree and
\* an error, ErrIncompatibleAsOf unless another reference of the tree
\* failed first; if no reference of the child subtree carries an AsOf,
\* resolveViews succeeds (when the rest of the tree does); and whenever it
\* succeeds, t has become the definition rebuilt with the child in which
\* every reference that had no AsOf carries q.
C11_QualifierPropagation ==
    vOut.done =>
        \A p \in Positions(vIn.tree) :
            LET t == At(vIn.tree, p)
                def == AnswerFor(vIn.cat, t).def
                inner == InnerAsOfs(def.children[1])
            IN  (QualifiedView(vIn.cat, t) /\ Len(def.children) = 1) =>
                    /\ (inner \ {"none", t.asOf} # {}) =>
                           /\ vOut.node = NilNode
                           /\ vOut.err # "nil"
                           /\ OthersPlain(vIn.cat, vIn.tree, p) =>
                                  vOut.err = "ErrIncompatibleAsOf"
                    /\ (inner \subseteq {"none"} /\ OthersPlain(vIn.cat, vIn.tree, p)) =>
                           vOut.err = "nil"
                    /\ vOut.err = "nil" => At(vOut.node, p) = Rebuilt(def, t.asOf)

\* A reference with AsOf q2 under a Project, to a view whose definition is
\* a Project over a join of two references without AsOf.
C11_Witness ==
    /\ vOut.done
    /\ vIn.tree = Project(UnresolvedTable("v", "db1", "q2"))
    /\ vIn.cat.reg["db1"].st = "view"
    /\ vIn.cat.reg["db1"].def =
           Project(CrossJoin(UnresolvedTable("t", "", "none"),
                             UnresolvedTable("v", "db1", "none")))
    /\ vOut.err = "nil"
    /\ vOut.node =
           Project(Project(CrossJoin(UnresolvedTable("t", "", "q2"),
                                     UnresolvedTable("v", "db1", "q2"))))

\* C12 (identical qualifiers are not a conflict), as claimed: for a
\* reference t with AsOf q to a view whose definition has exactly one child,
\* in which some reference carries q and none carries another AsOf,
\* resolveViews succeeds (when the rest of the tree does) and t has become
\* the definition rebuilt, the inner references with q keeping q.
C12_IdenticalAsOf ==
    vOut.done =>
        \A p \in Positions(vIn.tree) :
            LET t == At(vIn.tree, p)
                def == AnswerFor(vIn.cat, t).def
                inner == InnerAsOfs(def.children[1])
            IN  (/\ QualifiedView(vIn.cat, t) /\ Len(def.children) = 1
                 /\ t.asOf \in inner /\ inner \subseteq {"none", t.asOf}
                 /\ OthersPlain(vIn.cat, vIn.tree, p)) =>
                    /\ vOut.err = "nil"
                    /\ At(vOut.node, p) = Rebuilt(def, t.asOf)

\* C16 (view lookup errors): resolveViews never returns ErrNonExistingView;
\* when the registry's answer for a reference of the tree is another error,
\* resolveViews returns no tree and an error, which is that error unless a
\* reference to its left failed first; when the registry answers
\* ErrNonExistingView for every reference, the tree comes back as it was.
C16_ViewLookupErrors ==
    vOut.done =>
        /\ vOut.err # "ErrNonExistingView"
        /\ \A p \in Positions(vIn.tree) :
               LET t == At(vIn.tree, p)
                   a == AnswerFor(vIn.cat, t)
               IN  (t.kind = "UnresolvedTable"
                       /\ a.st \notin {"view", "ErrNonExistingView"}) =>
                       /\ vOut.node = NilNode
                       /\ vOut.err # "nil"
                       /\ EarlierPlain(vIn.cat, vIn.tree, p) => vOut.err = a.st
        /\ (\A p \in Positions(vIn.tree) :
               At(vIn.tree, p).kind = "UnresolvedTable" =>
                   AnswerFor(vIn.cat, At(vIn.tree, p)).st = "ErrNonExistingView") =>
               vOut.err = "nil" /\ vOut.node = vIn.tree

\* A join of a reference for which the registry answers ErrNonExistingView
\* and of one for which it answers another error.
C16_Witness ==
    /\ vOut.done
    /\ vIn.tree = CrossJoin(UnresolvedTable("v", "", "none"),
                            UnresolvedTable("v", "db2", "none"))
    /\ vIn.cat.cur = "db1"
    /\ vIn.cat.reg["db1"].st = "ErrNonExistingView"
    /\ vIn.cat.reg["db2"].st = "ErrCancelled"
    /\ vOut.err = "ErrCancelled"
    /\ vOut.node = NilNode

\* C17 (no propagation on shape mismatch): for a reference t with an AsOf
\* to a view whose definition has no child or several children,
\* resolveViews succeeds (when the rest of the tree does), and whenever it
\* succeeds t has become the definition exactly as it is stored, whatever
\* AsOf its inner references carry.
C17_ShapeMismatch ==
    vOut.done =>
        \A p \in Positions(vIn.tree) :
            LET t == At(vIn.tree, p)
                def == AnswerFor(vIn.cat, t).def
            IN  (QualifiedView(vIn.cat, t) /\ Len(def.children) # 1) =>
                    /\ OthersPlain(vIn.cat, vIn.tree, p) => vOut.err = "nil"
                    /\ vOut.err = "nil" => At(vOut.node, p) = def

\* A reference with AsOf q2 to a view whose definition is a join, one side
\* of which carries AsOf q1.
C17_Witness ==
    /\ vOut.done
    /\ vIn.tree = UnresolvedTable("v", "", "q2")
    /\ vIn.cat.cur = "db1"
    /\ vIn.cat.reg["db1"].st = "view"
    /\ vIn.cat.reg["db1"].def =
           CrossJoin(UnresolvedTable("t", "", "none"), UnresolvedTable("t", "", "q1"))
    /\ vOut.err = "nil"
    /\ vOut.node =
           CrossJoin(UnresolvedTable("t", "", "none"), UnresolvedTable("t", "", "q1"))

\* C13 (only complete caches are installed): over RowIter, Next and Close
\* calls, a cache a node holds is the cache of one iterator of this node
\* that pulled every row of the child up to io.EOF, with no child error, no
\* failed Add and no early Close; it holds exactly the child's rows in the
\* child's order and has not been disposed; the cache of an iterator that
\* saw a child error or a failed Add, or was closed early, is on no node.
C13_OnlyCompleteCaches ==
    /\ \A n \in 1..numNodes :
          nCache[n] # Nil =>
              LET c == nCache[n]
              IN  /\ c \in 1..numIters
                  /\ parent[c] = n
                  /\ nDispose[n] = c
                  /\ clean[c] /\ eof[c]
                  /\ pos[c] = RowsLen
                  /\ Get(c) = ChildRows(nChild[n])
                  /\ cDisposed[c] = 0
    /\ \A i \in 1..numIters :
          ~clean[i] => \A n \in 1..numNodes : nCache[n] # i

\* Iterator 1 gave up its cache after one row (child error, failed Add or
\* early Close); iterator 2 was drained and its cache is the node's.
C13_Witness ==
    /\ numIters = 2
    /\ ~clean[1] /\ pos[1] = 1 /\ cDisposed[1] = 1
    /\ Drained(2) /\ nCache[parent[2]] = 2
    /\ cRows[2] = ChildRows(1)

\* C14 (transparency of the wrapping iterator): the pair a Next returns is
\* the pair the child's Next returned to this call: returned in the step in
\* which the child returns, or kept unchanged while Next waits for and
\* holds the node's mutex; the rows come in the child's order, io.EOF
\* after the last one; the error is never one the child did not return.
C14_Transparency ==
    [][\A i \in 1..numIters :
          /\ (lastRet'.op = "Next" /\ lastRet'.iter = i) =>
                 /\ IF pc[i] = "inChild"
                    THEN \E c \in ChildNext(i) :
                            /\ lastRet'.r = c.r /\ lastRet'.err = c.err
                            /\ pos'[i] = pos[i] + c.adv
                    ELSE /\ pc[i] \in {"csEOF", "csNoCache"}
                         /\ lastRet'.r = res[i].r /\ lastRet'.err = res[i].err
                         /\ pos'[i] = pos[i]
                 /\ lastRet'.err \in {"nil", "EOF", "ERR"}
                 /\ lastRet'.err = "nil" =>
                        lastRet'.r = ChildRows(nChild[parent[i]])[pos'[i]]
                 /\ lastRet'.err = "EOF" => pos'[i] = RowsLen
          /\ (pc[i] = "inChild" /\ pc'[i] \in {"lockEOF", "lockNoCache"}) =>
                 \E c \in ChildNext(i) :
                    /\ res'[i] = [r |-> c.r, err |-> c.err]
                    /\ pos'[i] = pos[i] + c.adv
          /\ (pc[i] \in {"lockEOF", "lockNoCache"}) =>
                 res'[i] = res[i] /\ pos'[i] = pos[i]]_vars

\* Iterator 2 lost the promotion race: its Next has discarded its cache and
\* returned the child's io.EOF.
C14_Witness ==
    /\ numIters = 2
    /\ lastRet.op = "Next" /\ lastRet.iter = 2 /\ lastRet.err = "EOF"
    /\ pos[2] = RowsLen
    /\ nCache[parent[2]] = 1
    /\ cDisposed[2] = 1 /\ iCache[2] = Nil

\* C15 (no lock across the child's Next): the mutex of a node is held by no
\* Next that is inside its child; while a Next is inside the child, a
\* RowIter on the same node can take the mutex when it is free and can
\* finish when it holds it, and so can the Next of every other iterator of
\* the node.
C15_NoLockAcrossChild ==
    /\ \A n \in 1..numNodes : \A j \in 1..numIters :
          mutex[n] = <<"Next", j>> => pc[j] \in {"csEOF", "csNoCache"}
    /\ \A i \in 1..numIters :
          pc[i] = "inChild" =>
              LET n == parent[i]
              IN  /\ (mutex[n] = Free /\ (nCache[n] # Nil \/ nNoCache[n]
                                           \/ numIters < MaxIters)) =>
                         ENABLED RowIterLock(n)
                  /\ mutex[n] = <<"RowIter", 0>> => ENABLED RowIterBody(n)
                  /\ \A j \in 1..numIters \ {i} :
                         parent[j] = n =>
                             /\ (pc[j] \in {"lockEOF", "lockNoCache"}
                                    /\ mutex[n] = Free) => ENABLED NextLock(j)
                             /\ pc[j] = "csEOF" => ENABLED NextPromote(j)
                             /\ pc[j] = "csNoCache" => ENABLED NextDisable(j)

\* While the Next of iterator 1 is inside the child, a RowIter on the same
\* node has taken the mutex and returned.
C15_Witness ==
    /\ numIters = 2
    /\ pc[1] = "inChild"
    /\ lastRet.op = "RowIter" /\ lastRet.node = parent[1]
    /\ lastRet.kind = "replay"
    /\ eof[2]

\* C18 (no use after dispose), as claimed: no RowIter or getCachedResults
\* call reads rows with Get from a cache whose dispose function has been
\* invoked.
C18_NoUseAfterDispose == ~lastRet.disposedRead

\* C19 (lock release), as claimed: a locked mutex is held by a RowIter or
\* getCachedResults call in progress, or by the Next of an iterator of the
\* node that is between its Lock and its return; no mutex is locked with
\* no call to unlock it.
C19_LockRelease ==
    \A n \in 1..numNodes :
        \/ mutex[n] \in {Free, <<"RowIter", 0>>, <<"getCachedResults", 0>>}
        \/ \E i \in 1..numIters :
              /\ mutex[n] = <<"Next", i>>
              /\ parent[i] = n
              /\ pc[i] \in {"csEOF", "csNoCache"}

\* cache, dispose and noCache of node n.
CachingState(n) == <<nCache[n], nDispose[n], nNoCache[n]>>

\* What the caching state of node n is once the Next that holds its mutex
\* has made its write.
CachingStateAfter(n, i) ==
    IF pc[i] = "csEOF" /\ nCache[n] = Nil
    THEN <<iCache[i], iDispose[i], nNoCache[n]>>
    ELSE IF pc[i] = "csNoCache" THEN <<nCache[n], nDispose[n], TRUE>>
    ELSE CachingState(n)

\* C20 (WithChildren carries the caching state over), as claimed:
\* WithChildren with one child returns a new node with that child whose
\* cache, dispose and noCache are those of the original at the time of the
\* call (before or after the write of a Next that holds the mutex during
\* the call), and leaves the original as it was; with another number of
\* children it returns an error and changes no node.
C20_WithChildrenCarries ==
    [][lastRet'.op = "WithChildren" =>
          LET n == lastRet'.node
              nn == lastRet'.iter
          IN  IF lastRet'.kind = "node"
              THEN /\ nn = numNodes + 1 /\ numNodes' = nn
                   /\ nChild'[nn] = nn
                   /\ \/ <<nCache'[nn], nDispose'[nn], nNoCache'[nn]>> = CachingState(n)
                      \/ \E i \in 1..numIters :
                            /\ mutex[n] = <<"Next", i>>
                            /\ <<nCache'[nn], nDispose'[nn], nNoCache'[nn]>>
                                   = CachingStateAfter(n, i)
                   /\ nChild'[n] = nChild[n]
                   /\ <<nCache'[n], nDispose'[n], nNoCache'[n]>> = CachingState(n)
              ELSE /\ lastRet'.kind = "error"
                   /\ UNCHANGED nodeVars]_vars

====
